---- MODULE Spec2Model ----
(***************************************************************************)
(* Frame-candidate planning, scoring and top-5 selection of the thumbnail  *)
(* server (src/server/index.js; src/unnamed/part_000 is the same code).    *)
(*                                                                         *)
(* Units.  Durations are integers in centiseconds.  A candidate timestamp  *)
(* is kept exactly, as the numerator of a fraction of centiseconds whose   *)
(* denominator is TsDen(count), count being the number of candidates of    *)
(* the call; all comparisons of the code are done on these numerators, so  *)
(* the arithmetic is that of the reals (IEEE rounding is not modelled).    *)
(* A score is an integer in 0..ScoreScale standing for score/ScoreScale.   *)
(***************************************************************************)
EXTENDS Integers, Sequences, FiniteSets, TLC

VARIABLES
    call,        \* the latest direct call of a pure function (planner, scorer)
    clock,       \* Date.now() of the process
    dirs,        \* scratch directories that exist under os.tmpdir()
    files,       \* JPEG files that exist: file name -> content
    video,       \* per run: the uploaded video the run works on
    pc,          \* per run: the await the run is suspended at
    duration,    \* per run: const duration
    candidates,  \* per run: const candidates
    tmpDir,      \* per run: const tmpDir
    i,           \* per run: the loop index
    scored,      \* per run: const scored
    firstPass,   \* per run: picks when the first greedy walk ended
    picks,       \* per run: picks when the relaxed walk ended (acceptance order)
    result,      \* per run: the value the run returned
    baseStats,   \* per run: scoreFrameJpg's baseStats while the edge request runs
    error,       \* per run: the error the run threw
    trace        \* per run: external-tool invocations and pool updates so far

vars == << call, clock, dirs, files, video, pc, duration, candidates, tmpDir,
           i, scored, baseStats, firstPass, picks, result, error, trace >>

runVars == << clock, dirs, files, video, pc, duration, candidates, tmpDir,
              i, scored, baseStats, firstPass, picks, result, error, trace >>

-----------------------------------------------------------------------------
(* Math.min, Math.max, Math.abs *)

Min(a, b) == IF a <= b THEN a ELSE b

Max(a, b) == IF a >= b THEN a ELSE b

Abs(a) == IF a >= 0 THEN a ELSE 0 - a

-----------------------------------------------------------------------------
(* Program constants *)

StartPct == 6            \* duration * 0.06

EndPct == 94             \* duration * 0.94

MinCandidates == 40      \* Math.max(40, ...)

PerCandidateCs == 35     \* duration / 0.35

TailMarginCs == 15       \* duration - 0.15

DefaultMaxCandidates == 180

MinGapFloorCs == 120     \* Math.max(1.2, ...)

MinGapPct == 6           \* duration * 0.06

RelaxedGapCs == 100      \* >= 1.0

MaxPicks == 5            \* picks.length >= 5

MidGray == 128           \* default of YAVG, and the best exposure

ContrastSat == 64        \* ystd / 64

EdgeSat == 40            \* edge / 40

WExposure == 45          \* exposure * 0.45

WContrast == 30          \* contrast * 0.30

WSharp == 25             \* sharp * 0.25

-----------------------------------------------------------------------------
(* makeCandidateTimes *)

\* The denominator of the timestamps of a call that plans `count` candidates:
\* t (centiseconds) = numerator / TsDen(count).
TsDen(count) == 100 * (count + 1)

CandidateCount_NoFloor(d, maxCandidates) == Min(maxCandidates, d \div PerCandidateCs)

\* const count = Math.min(maxCandidates, Math.max(40, Math.floor(duration / 0.35)))
CandidateCount(d, maxCandidates) ==
    Min(maxCandidates, Max(MinCandidates, d \div PerCandidateCs))

\* const start = duration * 0.06, as a numerator over TsDen(count)
StartNum(d, count) == StartPct * d * (count + 1)

\* const end = duration * 0.94
EndNum(d, count) == EndPct * d * (count + 1)

\* const span = Math.max(0, end - start)
SpanNum(d, count) == Max(0, EndNum(d, count) - StartNum(d, count))

\* const step = span / (count + 1); the division is exact on the numerators
StepNum(d, count) == SpanNum(d, count) \div (count + 1)

RawTime_NoIndex(d, count, k) == StartNum(d, count) + StepNum(d, count)

\* const t = start + step * i
RawTime(d, count, k) == StartNum(d, count) + StepNum(d, count) * k

ClampTime_NoTail(d, count, t) == Max(0, t)

\* Math.max(0, Math.min(duration - 0.15, t))
ClampTime(d, count, t) == Max(0, Min((d - TailMarginCs) * TsDen(count), t))

\* The loop for (i = 1; i <= count; i++) times.push(...); count is at least 1
\* for every finite duration and every maxCandidates >= 1.
makeCandidateTimes(d, maxCandidates) ==
    LET count == CandidateCount(d, maxCandidates)
    IN  [k \in 1..count |-> ClampTime(d, count, RawTime(d, count, k))]

-----------------------------------------------------------------------------
(* parseSignalstats and scoreFrameJpg *)

\* The outcome of one statistics request: the request is rejected (ok = FALSE)
\* or ends with its diagnostic text, reduced here to the two keys the scorer
\* reads.  The text gives a key as no lavfi.signalstats.KEY= line ("absent"),
\* as digits that Number() reads as a number ("digits", a natural number
\* here), or as digits and dots that Number() reads as NaN ("malformed").
Absent == [t |-> "absent", v |-> 0]

Malformed == [t |-> "malformed", v |-> 0]

Digits(n) == [t |-> "digits", v |-> n]

Rejected == [ok |-> FALSE, YAVG |-> Absent, YSTD |-> Absent]

Stderr(yavg, ystd) == [ok |-> TRUE, YAVG |-> yavg, YSTD |-> ystd]

\* out[m[1]] = Number(m[2]) for every match; a key without a match stays undefined
parseSignalstats(stderr) ==
    [k \in {"YAVG", "YSTD"} |->
        IF stderr[k].t = "absent" THEN [t |-> "undefined", v |-> 0]
        ELSE IF stderr[k].t = "malformed" THEN [t |-> "NaN", v |-> 0]
        ELSE [t |-> "number", v |-> stderr[k].v]]

\* Number.isFinite(x)
IsFinite(x) == x.t = "number"

\* edgeStats = {}
NoStats == [k \in {"YAVG", "YSTD"} |-> [t |-> "undefined", v |-> 0]]

ScoreScale == 100 * MidGray * ContrastSat * EdgeSat

\* exposure = 1 - Math.min(1, Math.abs(yavg - 128) / 128), times MidGray
Exposure(yavg) == MidGray - Min(MidGray, Abs(yavg - MidGray))

\* contrast = Math.min(1, ystd / 64), times ContrastSat
Contrast(ystd) == Min(ContrastSat, ystd)

\* sharp = Math.min(1, edge / 40), times EdgeSat
Sharp(edge) == Min(EdgeSat, edge)

WeightedScore_NoSaturation(yavg, ystd, edge) ==
      WExposure * Exposure(yavg) * ContrastSat * EdgeSat
    + WContrast * ystd * MidGray * EdgeSat
    + WSharp * edge * MidGray * ContrastSat

\* exposure * 0.45 + contrast * 0.30 + sharp * 0.25, times ScoreScale
WeightedScore(yavg, ystd, edge) ==
      WExposure * Exposure(yavg) * ContrastSat * EdgeSat
    + WContrast * Contrast(ystd) * MidGray * EdgeSat
    + WSharp * Sharp(edge) * MidGray * ContrastSat

ScoreFromStats_EdgeFailureAborts(base, edge) ==
    IF edge.ok
    THEN WeightedScore(
             IF IsFinite(parseSignalstats(base).YAVG) THEN base.YAVG.v ELSE MidGray,
             IF IsFinite(parseSignalstats(base).YSTD) THEN base.YSTD.v ELSE 0,
             IF IsFinite(parseSignalstats(edge).YAVG) THEN edge.YAVG.v ELSE 0)
    ELSE 0

\* The part of scoreFrameJpg after the base request succeeded: `base` is the
\* outcome of the base request, `edge` that of the edge request
\* (catch { edgeStats = {} } when it is rejected).
ScoreFromStats(base, edge) ==
    LET bs == parseSignalstats(base)
        es == IF edge.ok THEN parseSignalstats(edge) ELSE NoStats
        yavg == IF IsFinite(bs.YAVG) THEN bs.YAVG.v ELSE MidGray
        ystd == IF IsFinite(bs.YSTD) THEN bs.YSTD.v ELSE 0
        edgeAvg == IF IsFinite(es.YAVG) THEN es.YAVG.v ELSE 0
    IN  WeightedScore(yavg, ystd, edgeAvg)

scoreFrameJpg_NoEarlyReturn(base, edge) == ScoreFromStats(base, edge)

\* scoreFrameJpg as a function of the outcomes of its two requests: a rejected
\* base request returns 0.0 before the edge request is made.
scoreFrameJpg(base, edge) ==
    IF base.ok THEN ScoreFromStats(base, edge) ELSE 0

-----------------------------------------------------------------------------
(* The selection step of autoPickTop5Times *)

RECURSIVE InsertByScore(_, _)
\* Insert item x after every item whose score is >= x.score
InsertByScore(sorted, x) ==
    IF sorted = << >> THEN << x >>
    ELSE IF Head(sorted).score >= x.score
         THEN << Head(sorted) >> \o InsertByScore(Tail(sorted), x)
         ELSE << x >> \o sorted

RECURSIVE SortFrom(_, _, _)
SortFrom(list, k, acc) ==
    IF k > Len(list) THEN acc ELSE SortFrom(list, k + 1, InsertByScore(acc, list[k]))

SortByScoreDesc_Ascending(list) ==
    LET d == SortFrom(list, 1, << >>)
    IN  [k \in 1..Len(d) |-> d[Len(d) + 1 - k]]

SortByScoreDesc_TiesReversed(list) ==
    LET d == SortFrom(list, 1, << >>)
        Lo(k) == CHOOSE a \in 1..k :
                     /\ d[a].score = d[k].score
                     /\ \A b \in 1..(a - 1) : d[b].score # d[k].score
        Hi(k) == CHOOSE a \in k..Len(d) :
                     /\ d[a].score = d[k].score
                     /\ \A b \in (a + 1)..Len(d) : d[b].score # d[k].score
    IN  [k \in 1..Len(d) |-> d[Lo(k) + Hi(k) - k]]

\* scored.sort((a, b) => b.score - a.score): descending by score, stable
SortByScoreDesc(list) == SortFrom(list, 1, << >>)

RECURSIVE InsertByTs(_, _)
InsertByTs(sorted, x) ==
    IF sorted = << >> THEN << x >>
    ELSE IF Head(sorted).ts <= x.ts
         THEN << Head(sorted) >> \o InsertByTs(Tail(sorted), x)
         ELSE << x >> \o sorted

RECURSIVE SortTsFrom(_, _, _)
SortTsFrom(list, k, acc) ==
    IF k > Len(list) THEN acc ELSE SortTsFrom(list, k + 1, InsertByTs(acc, list[k]))

SortByTsAsc_Unsorted(list) == list

\* picks.sort((a, b) => a.ts - b.ts): ascending by timestamp, stable
SortByTsAsc(list) == SortTsFrom(list, 1, << >>)

\* const minGap = Math.max(1.2, duration * 0.06), as a numerator over TsDen(count)
MinGapNum(d, count) ==
    Max(MinGapFloorCs * TsDen(count), MinGapPct * d * (count + 1))

RelaxedGapNum_Half(count) == (RelaxedGapCs \div 2) * TsDen(count)

\* the gap 1.0 of the relaxed walk
RelaxedGapNum(count) == RelaxedGapCs * TsDen(count)

FarEnough_LastOnly(acc, item, gap) ==
    acc = << >> \/ Abs(acc[Len(acc)].ts - item.ts) >= gap

\* picks.every((p) => Math.abs(p.ts - item.ts) >= gap)
FarEnough(acc, item, gap) ==
    \A k \in 1..Len(acc) : Abs(acc[k].ts - item.ts) >= gap

RECURSIVE GreedyWalk(_, _, _, _)
\* for (const item of scored) { if (picks.length >= 5) break;
\*                              if (picks.every(...)) picks.push(item); }
GreedyWalk(list, k, acc, gap) ==
    IF k > Len(list) \/ Len(acc) >= MaxPicks THEN acc
    ELSE GreedyWalk(list, k + 1,
                    IF FarEnough(acc, list[k], gap) THEN Append(acc, list[k]) ELSE acc,
                    gap)

\* picks after the first walk
FirstPass(d, count, ranked) == GreedyWalk(ranked, 1, << >>, MinGapNum(d, count))

RelaxedPass_None(count, ranked, acc) == acc

RelaxedPass_Restart(count, ranked, acc) ==
    IF Len(acc) < MaxPicks THEN GreedyWalk(ranked, 1, << >>, RelaxedGapNum(count)) ELSE acc

RelaxedPass_Always(count, ranked, acc) == GreedyWalk(ranked, 1, acc, RelaxedGapNum(count))

\* if (picks.length < 5) { ...the walk again with gap 1.0... }
RelaxedPass(count, ranked, acc) ==
    IF Len(acc) < MaxPicks THEN GreedyWalk(ranked, 1, acc, RelaxedGapNum(count)) ELSE acc

-----------------------------------------------------------------------------
(* ffprobeDurationSeconds *)

\* The outcome of the ffprobe request: "rejected" (runExecFile rejects), or
\* its stdout: "empty", "nonnumeric" (such as N/A), or "digits" (a decimal
\* number, v centiseconds).
ProbeOutcome(t, v) == [t |-> t, v |-> v]

ffprobeDurationSeconds_NoFiniteCheck(out) ==
    IF out.t = "rejected" THEN [ok |-> FALSE, n |-> 0, err |-> "ffprobe"]
    ELSE IF out.t = "digits" THEN [ok |-> TRUE, n |-> out.v, err |-> ""]
    ELSE [ok |-> TRUE, n |-> 0, err |-> ""]

\* const n = Number(String(stdout).trim()); Number("") is 0, Number("N/A") is NaN
\* if (!Number.isFinite(n)) throw new Error("Bad duration")
ffprobeDurationSeconds(out) ==
    IF out.t = "rejected" THEN [ok |-> FALSE, n |-> 0, err |-> "ffprobe"]
    ELSE IF out.t = "nonnumeric" THEN [ok |-> FALSE, n |-> 0, err |-> "Bad duration"]
    ELSE IF out.t = "empty" THEN [ok |-> TRUE, n |-> 0, err |-> ""]
    ELSE [ok |-> TRUE, n |-> out.v, err |-> ""]

-----------------------------------------------------------------------------
(* The file system under os.tmpdir() *)

\* ts.toFixed(2): the timestamp rounded to the nearest centisecond
ToFixed2(ts, count) == (2 * ts + TsDen(count)) \div (2 * TsDen(count))

\* path.join(tmpDir, `c_${i}_${ts.toFixed(2)}.jpg`)
JpgPath(dir, k, ts, count) == [dir |-> dir, i |-> k, ts |-> ToFixed2(ts, count)]

\* ffmpeg -y ... outPath: the file is created or overwritten
WriteFile(fs, path, content) == [p \in DOMAIN fs \cup {path} |->
                                    IF p = path THEN content ELSE fs[p]]

\* try { fs.unlinkSync(jpg) } catch {}
Unlink(fs, path) == [p \in DOMAIN fs \ {path} |-> fs[p]]

RmdirFiles_KeepFiles(fs, dir) == fs

\* fs.rmdirSync(tmpDir, { recursive: true }): the files of the directory
RmdirFiles(fs, dir) == [p \in {q \in DOMAIN fs : q.dir # dir} |-> fs[p]]

\* fs.rmdirSync(tmpDir, { recursive: true }): the directory itself
RmdirDirs(ds, dir) == ds \ {dir}

-----------------------------------------------------------------------------
(* Videos: what the external media tool reports for each of them *)

Runs == {"r1", "r2"}

\* A video is [probe, cut, a, b]: the outcome of its duration probe, and two
\* scenes; the frames of the candidates before index `cut` are of kind a, the
\* others of kind b.  The kind of a frame decides what the tool does with it:
\*   noextract  the frame cannot be extracted (extractJpgAt rejects)
\*   nobase     the JPEG is extracted, the base statistics request is rejected
\*   noedge     the base request succeeds, the edge request is rejected
\*   garbled    both requests succeed, their text has no usable number
\*   good, dark both requests succeed
FrameKinds == {"noextract", "nobase", "noedge", "garbled", "good", "dark"}

\* The edge strength of the frame of candidate k
Texture(k) == ((k * 7) % 5) * 10

Frame(v, k) == [kind |-> IF k < v.cut THEN v.a ELSE v.b, tex |-> Texture(k)]

NoVideo == [probe |-> ProbeOutcome("rejected", 0), cut |-> 0, a |-> "good", b |-> "good"]

\* What ffmpeg -vf format=gray,signalstats,metadata=print answers for a JPEG
BaseOutcome(frame) ==
    CASE frame.kind = "nobase"  -> Rejected
      [] frame.kind = "garbled" -> Stderr(Absent, Malformed)
      [] frame.kind = "dark"    -> Stderr(Digits(16), Digits(8))
      [] frame.kind = "noedge"  -> Stderr(Digits(128), Digits(32))
      [] OTHER                  -> Stderr(Digits(128), Digits(64))

\* What ffmpeg -vf format=gray,edgedetect=...,signalstats,metadata=print answers
EdgeOutcome(frame) ==
    CASE frame.kind = "noedge"  -> Rejected
      [] frame.kind = "garbled" -> Stderr(Malformed, Absent)
      [] OTHER                  -> Stderr(Digits(frame.tex), Digits(0))

-----------------------------------------------------------------------------
(* autoPickTop5Times, one action per continuation of an await *)

\* The loop test i < candidates.length after `k` candidates are done, with the
\* scored pool `sc`, the file system (ds, fs) and the trace `tr`: either the
\* next extraction is requested, or the loop ends and, in the same turn of the
\* event loop, the finally block removes the scratch directory, the pool is
\* ranked, the two walks run, the picks are sorted and the run returns.
Continue(r, d, cands, dir, k, sc, ds, fs, tr) ==
    IF k < Len(cands)
    THEN /\ pc' = [pc EXCEPT ![r] = "extract"]
         /\ i' = [i EXCEPT ![r] = k]
         /\ scored' = [scored EXCEPT ![r] = sc]
         /\ dirs' = ds
         /\ files' = fs
         /\ trace' = [trace EXCEPT ![r] = Append(tr, << "extract", k >>)]
         /\ UNCHANGED << firstPass, picks, result >>
    ELSE LET count  == Len(cands)
             ranked == SortByScoreDesc(sc)
             first  == FirstPass(d, count, ranked)
             all    == RelaxedPass(count, ranked, first)
         IN  /\ pc' = [pc EXCEPT ![r] = "done"]
             /\ i' = [i EXCEPT ![r] = k]
             /\ scored' = [scored EXCEPT ![r] = ranked]
             /\ dirs' = RmdirDirs(ds, dir)
             /\ files' = RmdirFiles(fs, dir)
             /\ firstPass' = [firstPass EXCEPT ![r] = first]
             /\ picks' = [picks EXCEPT ![r] = all]
             /\ result' = [result EXCEPT ![r] =
                              [duration |-> d, picks |-> SortByTsAsc(all)]]
             /\ trace' = [trace EXCEPT ![r] =
                              tr \o << << "rmdir", k >>, << "rank", k >> >>]

\* await ffprobeDurationSeconds(videoPath) throws: the run fails before it
\* plans candidates or creates its scratch directory.
ProbeFails(r) ==
    /\ pc[r] = "probe"
    /\ ~ ffprobeDurationSeconds(video[r].probe).ok
    /\ pc' = [pc EXCEPT ![r] = "failed"]
    /\ error' = [error EXCEPT ![r] = ffprobeDurationSeconds(video[r].probe).err]
    /\ UNCHANGED << call, clock, dirs, files, video, duration, candidates, tmpDir,
                    i, scored, baseStats, firstPass, picks, result, trace >>

\* await ffprobeDurationSeconds(videoPath) returns: candidates are planned,
\* the scratch directory is named after Date.now() and created, and the loop
\* is entered.
ProbeReturns(r) ==
    /\ pc[r] = "probe"
    /\ ffprobeDurationSeconds(video[r].probe).ok
    /\ LET d     == ffprobeDurationSeconds(video[r].probe).n
           cands == makeCandidateTimes(d, DefaultMaxCandidates)
       IN  /\ duration' = [duration EXCEPT ![r] = d]
           /\ candidates' = [candidates EXCEPT ![r] = cands]
           /\ tmpDir' = [tmpDir EXCEPT ![r] = clock]
           /\ Continue(r, d, cands, clock, 0, << >>, dirs \cup {clock}, files,
                       Append(trace[r], << "mkdir", clock >>))
    /\ UNCHANGED << call, clock, video, baseStats, error >>

\* The JPEG the run is working on
Jpg(r) == JpgPath(tmpDir[r], i[r], candidates[r][i[r] + 1], Len(candidates[r]))

\* ffmpeg cannot extract the frame, or cannot write into the directory
ExtractRejected(r) ==
    \/ Frame(video[r], i[r]).kind = "noextract"
    \/ tmpDir[r] \notin dirs

\* What a rejected ffmpeg may leave at outPath: a file that is no image
BrokenJpg == [kind |-> "nobase", tex |-> 0]

\* await extractJpgAt(...) throws, with or without a partial file written:
\* the finally block removes the scratch directory and the error leaves
\* autoPickTop5Times.
ExtractFails(r) ==
    /\ pc[r] = "extract"
    /\ ExtractRejected(r)
    /\ pc' = [pc EXCEPT ![r] = "failed"]
    /\ error' = [error EXCEPT ![r] = "ffmpeg"]
    /\ dirs' = RmdirDirs(dirs, tmpDir[r])
    /\ \E partial \in BOOLEAN :
          files' = RmdirFiles(IF partial /\ tmpDir[r] \in dirs
                              THEN WriteFile(files, Jpg(r), BrokenJpg)
                              ELSE files,
                              tmpDir[r])
    /\ trace' = [trace EXCEPT ![r] = Append(@, << "rmdir", i[r] >>)]
    /\ UNCHANGED << call, clock, video, duration, candidates, tmpDir, i, scored,
                    baseStats, firstPass, picks, result >>

\* await extractJpgAt(...) returns: the JPEG is written and scoreFrameJpg
\* makes its base statistics request.
ExtractReturns(r) ==
    /\ pc[r] = "extract"
    /\ ~ ExtractRejected(r)
    /\ files' = WriteFile(files, Jpg(r), Frame(video[r], i[r]))
    /\ pc' = [pc EXCEPT ![r] = "base"]
    /\ trace' = [trace EXCEPT ![r] = Append(@, << "base", i[r] >>)]
    /\ UNCHANGED << call, clock, dirs, video, duration, candidates, tmpDir, i,
                    scored, baseStats, firstPass, picks, result, error >>

\* What a statistics request answers for the JPEG of the run: rejected when
\* the file is not there
BaseAnswer(r) == IF Jpg(r) \in DOMAIN files THEN BaseOutcome(files[Jpg(r)]) ELSE Rejected

EdgeAnswer(r) == IF Jpg(r) \in DOMAIN files THEN EdgeOutcome(files[Jpg(r)]) ELSE Rejected

Scored_SameIndex(r, s, tr) ==
    Continue(r, duration[r], candidates[r], tmpDir[r], i[r],
             Append(scored[r], [ts |-> candidates[r][i[r] + 1], score |-> s]),
             dirs, Unlink(files, Jpg(r)),
             tr \o << << "push", i[r] >>, << "unlink", i[r] >> >>)

\* scoreFrameJpg returned s: scored.push({ ts, score: s }), the JPEG is
\* unlinked and the loop goes on.
Scored(r, s, tr) ==
    Continue(r, duration[r], candidates[r], tmpDir[r], i[r] + 1,
             Append(scored[r], [ts |-> candidates[r][i[r] + 1], score |-> s]),
             dirs, Unlink(files, Jpg(r)),
             tr \o << << "push", i[r] >>, << "unlink", i[r] >> >>)

\* The base request is rejected: scoreFrameJpg returns 0.0 at once.
BaseStatsFails(r) ==
    /\ pc[r] = "base"
    /\ ~ BaseAnswer(r).ok
    /\ Scored(r, scoreFrameJpg(BaseAnswer(r), Rejected), trace[r])
    /\ UNCHANGED << call, clock, video, duration, candidates, tmpDir, baseStats, error >>

\* The base request returns: baseStats is parsed and the edge request is made.
BaseStatsReturns(r) ==
    /\ pc[r] = "base"
    /\ BaseAnswer(r).ok
    /\ baseStats' = [baseStats EXCEPT ![r] = BaseAnswer(r)]
    /\ pc' = [pc EXCEPT ![r] = "edge"]
    /\ trace' = [trace EXCEPT ![r] = Append(@, << "edge", i[r] >>)]
    /\ UNCHANGED << call, clock, dirs, files, video, duration, candidates, tmpDir,
                    i, scored, firstPass, picks, result, error >>

\* The edge request is rejected or returns: the score is computed.
EdgeStatsReturns(r) ==
    /\ pc[r] = "edge"
    /\ Scored(r, scoreFrameJpg(baseStats[r], EdgeAnswer(r)), trace[r])
    /\ baseStats' = [baseStats EXCEPT ![r] = Rejected]
    /\ UNCHANGED << call, clock, video, duration, candidates, tmpDir, error >>

RunStep(r) ==
    \/ ProbeFails(r)
    \/ ProbeReturns(r)
    \/ ExtractFails(r)
    \/ ExtractReturns(r)
    \/ BaseStatsFails(r)
    \/ BaseStatsReturns(r)
    \/ EdgeStatsReturns(r)

\* Date.now() advances
MaxClock == 1

Tick ==
    /\ clock < MaxClock
    /\ clock' = clock + 1
    /\ UNCHANGED << call, dirs, files, video, pc, duration, candidates, tmpDir,
                    i, scored, baseStats, firstPass, picks, result, error, trace >>

-----------------------------------------------------------------------------
(* Specifications *)

NoCall == [fn |-> "none"]

RunsIdle(vs) ==
    /\ clock = 0
    /\ dirs = {}
    /\ files = << >>
    /\ video = vs
    /\ pc = [r \in Runs |-> IF vs[r] = NoVideo THEN "absent" ELSE "probe"]
    /\ duration = [r \in Runs |-> 0]
    /\ candidates = [r \in Runs |-> << >>]
    /\ tmpDir = [r \in Runs |-> 0]
    /\ i = [r \in Runs |-> 0]
    /\ scored = [r \in Runs |-> << >>]
    /\ baseStats = [r \in Runs |-> Rejected]
    /\ firstPass = [r \in Runs |-> << >>]
    /\ picks = [r \in Runs |-> << >>]
    /\ result = [r \in Runs |-> [duration |-> 0, picks |-> << >>]]
    /\ error = [r \in Runs |-> ""]
    /\ trace = [r \in Runs |-> << >>]

\* One selection run, on every video of RunVideos
RunDurations == {0 - 100, 100, 130, 300, 500, 900, 2000}

MaxCut == 10

RunProbes ==
    {ProbeOutcome("rejected", 0), ProbeOutcome("nonnumeric", 0), ProbeOutcome("empty", 0)}
    \cup {ProbeOutcome("digits", d) : d \in RunDurations}

RunVideos == [probe : RunProbes, cut : 0..MaxCut, a : FrameKinds, b : FrameKinds]

Init == /\ call = NoCall
        /\ \E v \in RunVideos : RunsIdle([r \in Runs |-> IF r = "r1" THEN v ELSE NoVideo])

Next == \E r \in Runs : RunStep(r)

Spec == Init /\ [][Next]_vars

\* Two selection runs of one process, interleaved at their awaits.  The two
\* runs work on different videos, so that their JPEG names differ: on the
\* same video and in the same directory every score of a run depends on the
\* interleaving, which no bounded search covers.
ConcVideos ==
    { [r \in Runs |->
          [probe |-> IF r = "r1" THEN ProbeOutcome("digits", 300) ELSE p,
           cut |-> 1, a |-> "dark", b |-> "good"]] :
      p \in {ProbeOutcome("digits", 500), ProbeOutcome("nonnumeric", 0)} }

InitConc == /\ call = NoCall
            /\ \E vs \in ConcVideos : RunsIdle(vs)

NextConc == Tick \/ \E r \in Runs : RunStep(r)

SpecConc == InitConc /\ [][NextConc]_vars

-----------------------------------------------------------------------------
(* Direct calls of the two pure functions *)

MaxDuration == 6400

MaxNegDuration == 20

PlanDurations == (0 - MaxNegDuration)..MaxDuration

\* maxCandidates: the default and the value of the one call site, and two
\* smaller limits
MaxCandidatesArgs == {MinCandidates, 90, DefaultMaxCandidates}

InitPlan ==
    /\ \E d \in PlanDurations, m \in MaxCandidatesArgs :
          call = [fn |-> "makeCandidateTimes", done |-> FALSE,
                  duration |-> d, maxCandidates |-> m, times |-> << >>]
    /\ RunsIdle([r \in Runs |-> NoVideo])

CallMakeCandidateTimes ==
    /\ call.fn = "makeCandidateTimes"
    /\ ~ call.done
    /\ call' = [call EXCEPT !.done = TRUE,
                            !.times = makeCandidateTimes(call.duration, call.maxCandidates)]
    /\ UNCHANGED runVars

SpecPlan == InitPlan /\ [][CallMakeCandidateTimes]_vars

MaxStat == 300

StatSamples == {0, 1, 20, 39, 40, 41, 63, 64, 65, 128, 255, MaxStat}

StatTexts(vals) == {Absent, Malformed} \cup {Digits(n) : n \in vals}

ScoreBaseOutcomes ==
    {Rejected} \cup {Stderr(y, s) : y \in StatTexts(0..MaxStat), s \in StatTexts(StatSamples)}

ScoreEdgeOutcomes ==
    {Rejected} \cup {Stderr(e, Absent) : e \in StatTexts(StatSamples)}

InitScore ==
    /\ \E b \in ScoreBaseOutcomes, e \in ScoreEdgeOutcomes :
          call = [fn |-> "scoreFrameJpg", done |-> FALSE,
                  base |-> b, edge |-> e, score |-> 0]
    /\ RunsIdle([r \in Runs |-> NoVideo])

CallScoreFrameJpg ==
    /\ call.fn = "scoreFrameJpg"
    /\ ~ call.done
    /\ call' = [call EXCEPT !.done = TRUE,
                            !.score = scoreFrameJpg(call.base, call.edge)]
    /\ UNCHANGED runVars

SpecScore == InitScore /\ [][CallScoreFrameJpg]_vars

-----------------------------------------------------------------------------
(* Properties *)

Planned == call.fn = "makeCandidateTimes" /\ call.done

PlanCount == Len(call.times)

Ended(r) == pc[r] = "done"

Count(r) == Len(candidates[r])

\* C1: an extraction failure of one candidate does not end the run: the run
\* goes on with the other candidates and returns a result, so no run ends
\* with the error of an extraction.
C1_ExtractionFailureAbsorbed ==
    \A r \in Runs : ~ (pc[r] = "failed" /\ error[r] = "ffmpeg")

\* C2: two runs that hold scratch storage at the same time hold different
\* scratch directories.
HoldsScratch(r) == pc[r] \in {"extract", "base", "edge"}

C2_ScratchExclusivelyOwned ==
    \A r1, r2 \in Runs :
        (r1 # r2 /\ HoldsScratch(r1) /\ HoldsScratch(r2)) => tmpDir[r1] # tmpDir[r2]

\* C3 as stated: for every duration > 0 every timestamp t satisfies
\* duration*0.06 <= t <= duration*0.94, t <= duration - 0.15 and 0 <= t < duration.
C3_TimesInsideWindow ==
    (Planned /\ call.duration > 0) =>
        \A k \in 1..PlanCount :
            /\ StartPct * call.duration * (PlanCount + 1) <= call.times[k]
            /\ call.times[k] <= EndPct * call.duration * (PlanCount + 1)
            /\ call.times[k] <= (call.duration - TailMarginCs) * 100 * (PlanCount + 1)
            /\ 0 <= call.times[k]
            /\ call.times[k] < call.duration * 100 * (PlanCount + 1)

\* C3 amended: for every duration > 0 every timestamp t satisfies
\* 0 <= t < duration, t <= duration*0.94 and t <= max(0, duration - 0.15);
\* when duration*0.94 >= 0.15 it also satisfies duration*0.06 <= t and
\* t <= duration - 0.15.
C3_TimesInsideWindowAmended ==
    (Planned /\ call.duration > 0) =>
        \A k \in 1..PlanCount :
            /\ 0 <= call.times[k]
            /\ call.times[k] < call.duration * 100 * (PlanCount + 1)
            /\ call.times[k] <= EndPct * call.duration * (PlanCount + 1)
            /\ call.times[k] <= Max(0, (call.duration - TailMarginCs) * 100 * (PlanCount + 1))
            /\ (EndPct * call.duration >= 100 * TailMarginCs) =>
                  /\ StartPct * call.duration * (PlanCount + 1) <= call.times[k]
                  /\ call.times[k] <= (call.duration - TailMarginCs) * 100 * (PlanCount + 1)

\* A video shorter than 0.15 s: all of its timestamps are 0
C3_Witness ==
    /\ Planned
    /\ call.duration > 0
    /\ EndPct * call.duration < 100 * TailMarginCs
    /\ PlanCount >= MinCandidates
    /\ \A k \in 1..PlanCount : call.times[k] = 0

\* C4 as stated: for every duration > 0 the timestamps are strictly ascending.
C4_StrictlyAscending ==
    (Planned /\ call.duration > 0) =>
        \A k \in 1..(PlanCount - 1) : call.times[k] < call.times[k + 1]

\* C4 amended: for every duration > 0 the timestamps are non-decreasing, and
\* two consecutive timestamps are equal only when both are clamped to
\* max(0, duration - 0.15); the sequence is strictly ascending when
\* duration >= 2.5.
C4_AscendingUpToClamp ==
    (Planned /\ call.duration > 0) =>
        \A k \in 1..(PlanCount - 1) :
            /\ call.times[k] <= call.times[k + 1]
            /\ (call.times[k] = call.times[k + 1]) =>
                  call.times[k] = Max(0, (call.duration - TailMarginCs) * 100 * (PlanCount + 1))
            /\ (call.duration >= 250) => call.times[k] < call.times[k + 1]

\* A 1 s video: the first timestamps ascend, the last ones are all 0.85
C4_Witness ==
    /\ Planned
    /\ call.duration = 100
    /\ call.times[1] < call.times[2]
    /\ call.times[PlanCount - 1] = call.times[PlanCount]
    /\ call.times[PlanCount] = 85 * 100 * (PlanCount + 1)

\* C5: the number of timestamps is clamp(floor(duration/0.35), 40,
\* maxCandidates): at least 40, exactly 40 when floor(duration/0.35) < 40, at
\* most maxCandidates, and not smaller than for the next shorter duration.
C5_CountIsClamped ==
    Planned =>
        LET f == call.duration \div PerCandidateCs
        IN  /\ PlanCount = (IF f < 40 THEN 40
                            ELSE IF f > call.maxCandidates THEN call.maxCandidates
                            ELSE f)
            /\ PlanCount >= 40
            /\ PlanCount <= call.maxCandidates
            /\ (f < 40) => PlanCount = 40
            /\ Len(makeCandidateTimes(call.duration - 1, call.maxCandidates)) <= PlanCount

\* A video too short for 40 steps of 0.35 s still gets 40 candidates
C5_Witness ==
    /\ Planned
    /\ call.duration > 0
    /\ call.duration \div PerCandidateCs < 40
    /\ call.maxCandidates = DefaultMaxCandidates
    /\ PlanCount = 40

\* C6: a run whose probed duration is 0 or negative plans, extracts and
\* scores no candidate.
C6_NonPositiveDurationPlansNothing ==
    \A r \in Runs :
        (pc[r] \in {"extract", "base", "edge", "done"} /\ duration[r] <= 0) =>
            /\ candidates[r] = << >>
            /\ scored[r] = << >>
            /\ \A k \in 1..Len(trace[r]) : trace[r][k][1] # "extract"

\* C7: no two picks of a result are less than 1.0 s apart.
C7_PicksAtLeastOneSecondApart ==
    \A r \in Runs :
        Ended(r) =>
            \A a, b \in 1..Len(result[r].picks) :
                (a # b) =>
                    Abs(result[r].picks[a].ts - result[r].picks[b].ts)
                        >= 100 * 100 * (Count(r) + 1)

\* The relaxed walk added a pick that is closer than minGap to another pick
C7_Witness ==
    \E r \in Runs :
        /\ Ended(r)
        /\ Len(picks[r]) > Len(firstPass[r])
        /\ \E a, b \in 1..Len(result[r].picks) :
              /\ a # b
              /\ Abs(result[r].picks[a].ts - result[r].picks[b].ts)
                    < 120 * 100 * (Count(r) + 1)

\* C8: when the first walk accepts 5 picks, all picks of the result are at
\* least max(1.2, duration*0.06) apart; in general two picks are at least as
\* far apart as the gap in force when the later of them was accepted.
C8_Gap(r, k) ==
    IF k <= Len(firstPass[r])
    THEN Max(120 * 100 * (Count(r) + 1), 6 * duration[r] * (Count(r) + 1))
    ELSE 100 * 100 * (Count(r) + 1)

C8_PicksRespectGapInForce ==
    \A r \in Runs :
        Ended(r) =>
            /\ \A a, b \in 1..Len(picks[r]) :
                  (a < b) => Abs(picks[r][a].ts - picks[r][b].ts) >= C8_Gap(r, b)
            /\ (Len(firstPass[r]) = 5) =>
                  /\ picks[r] = firstPass[r]
                  /\ \A a, b \in 1..Len(result[r].picks) :
                        (a # b) =>
                            Abs(result[r].picks[a].ts - result[r].picks[b].ts)
                                >= C8_Gap(r, 1)

\* The first walk alone accepted 5 picks
C8_Witness ==
    \E r \in Runs :
        /\ Ended(r)
        /\ Len(firstPass[r]) = 5
        /\ Len(result[r].picks) = 5

\* C9: a result has at most 5 picks, in ascending order of timestamp, and
\* each pick is a scored candidate with its score.
C9_ResultSortedSubsetOfScored ==
    \A r \in Runs :
        Ended(r) =>
            /\ result[r].duration = duration[r]
            /\ Len(result[r].picks) <= 5
            /\ \A k \in 1..(Len(result[r].picks) - 1) :
                  result[r].picks[k].ts <= result[r].picks[k + 1].ts
            /\ \A k \in 1..Len(result[r].picks) :
                  /\ \E n \in 1..Len(scored[r]) : scored[r][n] = result[r].picks[k]
                  /\ \E n \in 1..Count(r) : candidates[r][n] = result[r].picks[k].ts
            /\ Len(scored[r]) = Count(r)

\* Five picks that were not accepted in chronological order
C9_Witness ==
    \E r \in Runs :
        /\ Ended(r)
        /\ Len(result[r].picks) = 5
        /\ result[r].picks # picks[r]

\* C10: scoreFrameJpg returns a value in [0,1] for every outcome of its two
\* requests, and 1.0 for Y = 128, S = 64, E = 40.
C10_ScoreInUnitInterval ==
    (call.fn = "scoreFrameJpg" /\ call.done) =>
        /\ call.score >= 0
        /\ call.score <= 100 * 128 * 64 * 40
        /\ (/\ call.base.ok
            /\ call.edge.ok
            /\ call.base.YAVG = Digits(128)
            /\ call.base.YSTD = Digits(64)
            /\ call.edge.YAVG = Digits(40)) => call.score = 100 * 128 * 64 * 40

\* The best frame, and its score
C10_Witness ==
    /\ call.fn = "scoreFrameJpg"
    /\ call.done
    /\ call.base = Stderr(Digits(128), Digits(64))
    /\ call.edge = Stderr(Digits(40), Absent)
    /\ call.score = ScoreScale

\* The run made the request or pool update `tag` for the candidate of index k
InTrace(r, tag, k) == \E n \in 1..Len(trace[r]) : trace[r][n] = << tag, k >>

\* C11: a candidate whose base statistics request is rejected gets score 0.0
\* without an edge request, and is in the scored pool that is ranked.  The
\* trace and the pool only grow while the loop runs, so the candidate scored
\* last is looked at in every state and all candidates when the run has ended.
C11_Holds(r, k) ==
    (Frame(video[r], k).kind = "nobase" /\ InTrace(r, "push", k)) =>
        /\ InTrace(r, "base", k)
        /\ ~ InTrace(r, "edge", k)
        /\ \E n \in 1..Len(scored[r]) :
              scored[r][n] = [ts |-> candidates[r][k + 1], score |-> 0]

C11_BaseFailureScoresZero ==
    \A r \in Runs :
        /\ (i[r] >= 1) => C11_Holds(r, i[r] - 1)
        /\ Ended(r) =>
              /\ Len(scored[r]) = Count(r)
              /\ \A k \in 0..(Count(r) - 1) : C11_Holds(r, k)

\* A result that holds a pick of score 0.0 next to picks of a higher score
C11_Witness ==
    \E r \in Runs :
        /\ Ended(r)
        /\ \E k \in 0..(Count(r) - 1) : Frame(video[r], k).kind = "nobase"
        /\ \E a, b \in 1..Len(result[r].picks) :
              /\ result[r].picks[a].score = 0
              /\ result[r].picks[b].score > 0

\* C12: when only the edge request is rejected the score is
\* 0.45*exposure + 0.30*contrast, with exposure = 1 - min(1, |Y-128|/128) and
\* contrast = min(1, S/64) from the base statistics (Y = 128 and S = 0 when
\* the base text gives no number).
C12_Y == IF call.base.YAVG.t = "digits" THEN call.base.YAVG.v ELSE 128

C12_S == IF call.base.YSTD.t = "digits" THEN call.base.YSTD.v ELSE 0

C12_EdgeFailureDropsSharpness ==
    (call.fn = "scoreFrameJpg" /\ call.done /\ call.base.ok /\ ~ call.edge.ok) =>
        call.score =
              45 * (128 - (IF Abs(C12_Y - 128) > 128 THEN 128 ELSE Abs(C12_Y - 128))) * 64 * 40
            + 30 * (IF C12_S > 64 THEN 64 ELSE C12_S) * 128 * 40

\* A well exposed, contrasted frame whose edge request is rejected scores 0.75
C12_Witness ==
    /\ call.fn = "scoreFrameJpg"
    /\ call.done
    /\ call.base = Stderr(Digits(128), Digits(64))
    /\ ~ call.edge.ok
    /\ 4 * call.score = 3 * ScoreScale

C14_ProbeFailed(r) ==
    /\ pc[r] \notin {"absent", "probe"}
    /\ video[r].probe.t \in {"rejected", "nonnumeric"}

C14_ProbeFailureIsFatal ==
    \A r \in Runs :
        C14_ProbeFailed(r) =>
            /\ pc[r] = "failed"
            /\ error[r] = (IF video[r].probe.t = "rejected" THEN "ffprobe" ELSE "Bad duration")
            /\ trace[r] = << >>
            /\ candidates[r] = << >>
            /\ scored[r] = << >>
            /\ result[r].picks = << >>
            /\ dirs = {}
            /\ DOMAIN files = {}
            /\ ~ ENABLED RunStep(r)

\* A run whose probe printed no number has failed with Bad duration
C14_Witness ==
    \E r \in Runs :
        /\ pc[r] = "failed"
        /\ video[r].probe.t = "nonnumeric"
        /\ error[r] = "Bad duration"
        /\ trace[r] = << >>

\* C15: candidates of equal score are ranked in planner order.  When all
\* candidates have the same score the ranking is the planner's list, the first
\* walk accepts the earliest candidate and then each next candidate, in
\* planner order, that is at least minGap from every accepted pick, until it
\* has 5 picks or no candidate is left.
C15_AllTied(r) ==
    \A a, b \in 1..Len(scored[r]) : scored[r][a].score = scored[r][b].score

C15_MinGap(r) == Max(120 * 100 * (Count(r) + 1), 6 * duration[r] * (Count(r) + 1))

\* Candidate timestamp t is at least minGap from the first n first-walk picks
C15_Spaced(r, t, n) ==
    \A m \in 1..n : Abs(firstPass[r][m].ts - t) >= C15_MinGap(r)

C15_TiesKeepPlannerOrder ==
    \A r \in Runs :
        (Ended(r) /\ Count(r) > 0) =>
            /\ \A a \in 1..(Len(scored[r]) - 1) :
                  \/ scored[r][a].score > scored[r][a + 1].score
                  \/ /\ scored[r][a].score = scored[r][a + 1].score
                     /\ scored[r][a].ts <= scored[r][a + 1].ts
            /\ C15_AllTied(r) =>
                  /\ \A k \in 1..Count(r) : scored[r][k].ts = candidates[r][k]
                  /\ firstPass[r] # << >>
                  /\ firstPass[r][1].ts = candidates[r][1]
                  /\ \A n \in 1..(Len(firstPass[r]) - 1) :
                        /\ firstPass[r][n + 1].ts > firstPass[r][n].ts
                        /\ C15_Spaced(r, firstPass[r][n + 1].ts, n)
                        /\ \A k \in 1..Count(r) :
                              (/\ candidates[r][k] > firstPass[r][n].ts
                               /\ candidates[r][k] < firstPass[r][n + 1].ts)
                                  => ~ C15_Spaced(r, candidates[r][k], n)
                  /\ (Len(firstPass[r]) < 5) =>
                        \A k \in 1..Count(r) :
                            ~ C15_Spaced(r, candidates[r][k], Len(firstPass[r]))

\* All candidates tie, and the first walk skipped candidates to find 5 picks
C15_Witness ==
    \E r \in Runs :
        /\ Ended(r)
        /\ Count(r) >= 40
        /\ C15_AllTied(r)
        /\ Len(firstPass[r]) = 5
        /\ firstPass[r][2].ts > candidates[r][2]

\* All candidates tie, and the first walk stopped short of 5 picks
C15_WitnessShort ==
    \E r \in Runs :
        /\ Ended(r)
        /\ C15_AllTied(r)
        /\ Len(firstPass[r]) \in 2..4

\* C17: the relaxed walk only appends to the picks of the first walk, and only
\* when the first walk accepted fewer than 5: the picks of the first walk are
\* all in the result, and no timestamp is twice in the result, also when the
\* planner repeated a timestamp.
C17_RelaxedPassOnlyAppends ==
    \A r \in Runs :
        Ended(r) =>
            /\ Len(firstPass[r]) <= Len(picks[r])
            /\ \A k \in 1..Len(firstPass[r]) : picks[r][k] = firstPass[r][k]
            /\ (Len(firstPass[r]) >= 5) => picks[r] = firstPass[r]
            /\ Len(result[r].picks) = Len(picks[r])
            /\ \A k \in 1..Len(firstPass[r]) :
                  \E n \in 1..Len(result[r].picks) : result[r].picks[n] = firstPass[r][k]
            /\ \A a, b \in 1..Len(result[r].picks) :
                  (a # b) => result[r].picks[a].ts # result[r].picks[b].ts

\* The planner repeated a timestamp and the relaxed walk added a pick
C17_Witness ==
    \E r \in Runs :
        /\ Ended(r)
        /\ \E a, b \in 1..Count(r) : a # b /\ candidates[r][a] = candidates[r][b]
        /\ Len(firstPass[r]) >= 1
        /\ Len(firstPass[r]) < 5
        /\ Len(picks[r]) > Len(firstPass[r])

\* C18: a run processes its candidates one after the other in planner order,
\* each of them once and in the order extract, base statistics, edge
\* statistics, record score, delete JPEG; at most one request to the external
\* tool is unanswered at any time; ranking starts after the last candidate.
\* Event f may directly follow event e in the trace of a run of `count` candidates
C18_Follows(e, f, count) ==
    CASE e[1] = "mkdir"   -> f = << IF count = 0 THEN "rmdir" ELSE "extract", 0 >>
      [] e[1] = "extract" -> f = << "base", e[2] >> \/ f = << "rmdir", e[2] >>
      [] e[1] = "base"    -> f = << "edge", e[2] >> \/ f = << "push", e[2] >>
      [] e[1] = "edge"    -> f = << "push", e[2] >>
      [] e[1] = "push"    -> f = << "unlink", e[2] >>
      [] e[1] = "unlink"  -> f = << IF e[2] + 1 < count THEN "extract" ELSE "rmdir", e[2] + 1 >>
      [] e[1] = "rmdir"   -> f = << "rank", count >> /\ e[2] = count
      [] OTHER            -> FALSE

C18_Requests == {"extract", "base", "edge"}

C18_SequentialInPlannerOrder ==
    \A r \in Runs :
        LET tr == trace[r]
        IN  /\ (tr # << >>) => tr[1][1] = "mkdir"
            /\ \A n \in 1..(Len(tr) - 1) : C18_Follows(tr[n], tr[n + 1], Count(r))
            /\ (pc[r] \in C18_Requests) <=>
                  (tr # << >> /\ tr[Len(tr)][1] \in C18_Requests)
            /\ (pc[r] \in C18_Requests) => tr[Len(tr)] = << pc[r], i[r] >>
            /\ Len(scored[r]) = Cardinality({n \in 1..Len(tr) : tr[n][1] = "push"})
            /\ Ended(r) =>
                  /\ tr[Len(tr)] = << "rank", Count(r) >>
                  /\ \A k \in 0..(Count(r) - 1) :
                        InTrace(r, "push", k) /\ InTrace(r, "unlink", k)

\* A run is waiting for the edge statistics of its last candidate, with every
\* earlier candidate scored
C18_Witness ==
    \E r \in Runs :
        /\ pc[r] = "edge"
        /\ Count(r) >= 40
        /\ i[r] = Count(r) - 1
        /\ Len(scored[r]) = Count(r) - 1
        /\ InTrace(r, "unlink", Count(r) - 2)

\* C19: the selection is greedy-maximal: the highest-ranked scored candidate
\* is a pick, and when the result has fewer than 5 picks every scored
\* candidate is a pick or lies less than 1.0 second from a pick.  (A pool of
\* fewer than 5 entries, pairwise 1.0 second apart, would then be returned in
\* full; a run always scores at least MinCandidates entries.)
C19_Picked(r, item) ==
    \E m \in 1..Len(result[r].picks) : result[r].picks[m] = item

C19_Blocked(r, item) ==
    \E m \in 1..Len(result[r].picks) :
        Abs(result[r].picks[m].ts - item.ts) < 100 * 100 * (Count(r) + 1)

C19_GreedyMaximal ==
    \A r \in Runs :
        (Ended(r) /\ scored[r] # << >>) =>
            /\ C19_Picked(r, scored[r][1])
            /\ picks[r][1] = scored[r][1]
            /\ (Len(result[r].picks) < 5) =>
                  \A n \in 1..Len(scored[r]) :
                      C19_Picked(r, scored[r][n]) \/ C19_Blocked(r, scored[r][n])

\* Both walks ran and left fewer than 5 picks, with candidates not picked
C19_Witness ==
    \E r \in Runs :
        /\ Ended(r)
        /\ Len(picks[r]) > Len(firstPass[r])
        /\ Len(result[r].picks) \in 2..4
        /\ \E n \in 1..Len(scored[r]) : ~ C19_Picked(r, scored[r][n])

====
